---------------------------- MODULE Spec2Model ----------------------------
(***************************************************************************)
(* Distance-vector routing daemon (logic.py, network.py, cli.py).          *)
(*                                                                         *)
(* One daemon per server.  Each daemon holds the routing state S of        *)
(* logic.py (neighbors, _neighbor_vectors, _last_seen, routing), the       *)
(* packet counter of network.py and the console of cli.py.                 *)
(*                                                                         *)
(* Costs are Python floats; the model keeps the integer ones and writes    *)
(* math.inf as the sentinel Inf, larger than every finite cost the model   *)
(* produces, with inf + x = inf (Plus).  Python dicts keep insertion       *)
(* order and logic.neighbors is iterated in that order by _recompute and   *)
(* send_to_neighbors, so neighbors is a sequence of <<id, cost>> pairs;    *)
(* the other dicts are only looked up by key and are functions.            *)
(***************************************************************************)
EXTENDS Integers, Sequences, FiniteSets, TLC

VARIABLES
    neighbors,          \* logic.neighbors of each daemon: Seq(<<id, cost>>)
    neighbor_vectors,   \* logic._neighbor_vectors: sender -> (dest -> cost)
    last_seen,          \* logic._last_seen: sender -> monotonic time
    routing,            \* logic.routing: dest -> <<next_hop, cost>>
    alive,              \* FALSE once the process has exited (crash)
    now,                \* time.monotonic()
    out,                \* what the last operation printed on standard output
    last,               \* the operation that completed last
    inbox,              \* the datagrams waiting in each daemon's UDP socket
    due,                \* the time each periodic loop's sleep ends
    cmds,               \* the number of console commands issued to the mesh
    thr,                \* where each thread of a daemon is, and its locals
    installed,          \* the tables a completed _recompute (or init) produced
    pkt_count,          \* network.pkt_count of daemon Self
    accepted,           \* the datagrams the receive loop of Self has accepted
    reported            \* the sum of the counts `packets` has printed

vars == <<neighbors, neighbor_vectors, last_seen, routing, alive, now, out, last,
          inbox, due, cmds, thr, installed, pkt_count, accepted, reported>>

\* the packet counter of daemon Self and its history; the specifications of
\* the routing state alone do not follow it
countVars == <<pkt_count, accepted, reported>>

\* the sockets, the periodic sleeps and the command count of the mesh
meshVars == <<inbox, due, cmds>>

\* the threads of one daemon, followed statement by statement
threadVars == <<thr, installed>>

\* what the operations of one daemon, taken whole, leave alone
otherVars == <<inbox, due, cmds, thr, installed, countVars>>

-----------------------------------------------------------------------------
(* Values *)

\* math.inf
Inf == 1000000

\* Python's None as a next hop (server ids are positive)
None == 0

\* network.servers: the ids of the topology registry
Servers == {1, 2, 3}

\* logic.UPDATE_INTERVAL, in clock units
UPDATE_INTERVAL == 1

\* The clock is stopped after this many steps
MaxTicks == 2

\* The mesh is observed for this many intervals
MaxTime == 2

\* The consoles of the mesh are given this many commands
MaxCmds == 2

\* inf + x = inf; finite floats add
Plus(a, b) == IF a = Inf \/ b = Inf THEN Inf ELSE a + b

-----------------------------------------------------------------------------
(* Python dict helpers *)

\* dict.get(k, d) on a function
Get(f, k, d) == IF k \in DOMAIN f THEN f[k] ELSE d

\* f[k] = v on a function
Put(f, k, v) == [x \in DOMAIN f \cup {k} |-> IF x = k THEN v ELSE f[x]]

\* f.pop(k, None) on a function
Pop(f, k) == [x \in DOMAIN f \ {k} |-> f[x]]

\* keys of the ordered dict neighbors
Keys(nb) == {nb[k][1] : k \in DOMAIN nb}

\* neighbors.get(n, d)
CostOf(nb, n, d) ==
    IF n \in Keys(nb)
    THEN LET k == CHOOSE k \in DOMAIN nb : nb[k][1] = n IN nb[k][2]
    ELSE d

\* neighbors[n] = c: an existing key keeps its place, a new key goes last
SetCost(nb, n, c) ==
    IF n \in Keys(nb)
    THEN [k \in DOMAIN nb |-> IF nb[k][1] = n THEN <<n, c>> ELSE nb[k]]
    ELSE Append(nb, <<n, c>>)

\* the neighbors whose link cost is below inf
FiniteKeys(nb) == {nb[k][1] : k \in {k \in DOMAIN nb : nb[k][2] < Inf}}

-----------------------------------------------------------------------------
(* logic.py: the routing state S of one daemon, as a record                *)
(*   nb: neighbors, nv: _neighbor_vectors, ls: _last_seen, rt: routing     *)

\* the inner loop with line 147 adding no link cost
TryNeighborNoLinkCost(self, nbrs, nv, dest, k, best) ==
    LET nbr == nbrs[k][1]
        nbr_vec == Get(nv, nbr, << >>)
        candidate == Get(nbr_vec, dest, Inf)
    IN  IF nbrs[k][2] = Inf
        THEN best
        ELSE IF Get(nbr_vec, self, Inf) = 0 /\ dest # nbr
        THEN best
        ELSE IF candidate < best[2]
        THEN <<nbr, candidate>>
        ELSE best

\* One neighbor of the inner loop of _recompute (lines 133-150): best is the
\* pair <<best_next, best_cost>> so far, nbrs[k] the neighbor tried.
TryNeighbor(self, nbrs, nv, dest, k, best) ==
    LET nbr == nbrs[k][1]
        link_cost == nbrs[k][2]
        nbr_vec == Get(nv, nbr, << >>)
        nbr_best_cost == Get(nbr_vec, dest, Inf)
        candidate == Plus(link_cost, nbr_best_cost)
    IN  IF link_cost = Inf
        THEN best
        ELSE IF Get(nbr_vec, self, Inf) = 0 /\ dest # nbr
        THEN best
        ELSE IF candidate < best[2]
        THEN <<nbr, candidate>>
        ELSE best

\* The inner loop of _recompute over neighbors.items(), in dict order
RECURSIVE TryNeighbors(_, _, _, _, _, _)
TryNeighbors(self, nbrs, nv, dest, k, best) ==
    IF k > Len(nbrs)
    THEN best
    ELSE TryNeighbors(self, nbrs, nv, dest, k + 1,
                      TryNeighbor(self, nbrs, nv, dest, k, best))

\* new_table after the self route and the direct neighbors (lines 110-118):
\* the loop over neighbors runs after the self route and overwrites it
DirectTable(self, nbrs) ==
    [d \in {self} \cup FiniteKeys(nbrs) |->
        IF d \in FiniteKeys(nbrs) THEN <<d, CostOf(nbrs, d, Inf)>> ELSE <<None, 0>>]

\* all_dests (lines 121-123)
AllDests(self, nbrs, nv) ==
    DOMAIN DirectTable(self, nbrs) \cup UNION {DOMAIN nv[s] : s \in DOMAIN nv}

\* best (next, cost) of one destination (lines 129-150)
BestRoute(self, nbrs, nv, dest) ==
    TryNeighbors(self, nbrs, nv, dest, 1,
                 Get(DirectTable(self, nbrs), dest, <<None, Inf>>))

\* _recompute: the table it installs
Recompute(self, nbrs, nv) ==
    LET T0 == DirectTable(self, nbrs)
        best == [d \in AllDests(self, nbrs, nv) |-> BestRoute(self, nbrs, nv, d)]
        kept == {d \in DOMAIN best : d = self \/ best[d][2] < Inf}
    IN  [d \in kept |-> IF d = self THEN T0[self] ELSE best[d]]

\* The cost tokens the console commands are given
CostTokens == {"inf", "1", "2"}

\* update_link lines 67-71: "inf" or float(cost_str)
ParseCost(tok) ==
    CASE tok = "inf" -> Inf
      [] tok = "0" -> 0
      [] tok = "1" -> 1
      [] tok = "2" -> 2
      [] tok = "-1" -> 0 - 1
      [] tok = "65535" -> 65535

\* float(cost_str) raises ValueError on a token that is no number
CostParses(tok) == tok \in {"inf", "0", "1", "2", "-1", "65535"}

\* int(token): the ids the console tokens denote; int() raises on the others
IntOf(tok) ==
    CASE tok = "1" -> 1
      [] tok = "2" -> 2
      [] tok = "3" -> 3

IsInt(tok) == tok \in {"1", "2", "3"}

\* logic.init with the neighbor map read from the topology file
InitState(self, initial_neighbors, t) ==
    [nb |-> initial_neighbors,
     nv |-> << >>,
     ls |-> [n \in Keys(initial_neighbors) |-> t],
     rt |-> DirectTable(self, initial_neighbors)]

\* update_link without line 78: the vector of a link set to inf is kept
UpdateLinkKeepsVector(self, S, a, b, tok) ==
    IF self \notin {a, b}
    THEN S
    ELSE LET other == IF self = a THEN b ELSE a
             nb == SetCost(S.nb, other, ParseCost(tok))
         IN  [S EXCEPT !.nb = nb, !.rt = Recompute(self, nb, S.nv)]

\* logic.update_link(a, b, cost_str) on state S of daemon self
UpdateLink(self, S, a, b, tok) ==
    IF self \notin {a, b}
    THEN S
    ELSE LET other == IF self = a THEN b ELSE a
             new_cost == ParseCost(tok)
             nb == SetCost(S.nb, other, new_cost)
             nv == IF new_cost = Inf THEN Pop(S.nv, other) ELSE S.nv
         IN  [S EXCEPT !.nb = nb, !.nv = nv, !.rt = Recompute(self, nb, nv)]

\* the normalization keeping every cost as it is
NormalizeKeepsAll(vector) == vector

\* handle_update lines 93-99: negative costs become inf
Normalize(vector) ==
    [d \in DOMAIN vector |-> IF vector[d] >= 0 THEN vector[d] ELSE Inf]

\* logic.handle_update(sender_id, vector) at time t
HandleUpdate(self, S, s, vector, t) ==
    LET ls == Put(S.ls, s, t)
    IN  IF CostOf(S.nb, s, Inf) = Inf
        THEN [S EXCEPT !.ls = ls]
        ELSE LET nv == Put(S.nv, s, Normalize(vector))
             IN  [S EXCEPT !.ls = ls, !.nv = nv, !.rt = Recompute(self, S.nb, nv)]

\* maintenance line 170
Timeout == 3 * UPDATE_INTERVAL

\* the sweep with >= for the > of line 180
ExpiredAtThreshold(S, t) ==
    {n \in FiniteKeys(S.nb) : t - Get(S.ls, n, 0) >= Timeout}

\* maintenance lines 174-183: the neighbors the sweep at time t expires
Expired(S, t) ==
    {n \in FiniteKeys(S.nb) : t - Get(S.ls, n, 0) > Timeout}

\* maintenance without the recompute of lines 185-186
MaintenanceNoRecompute(self, S, t) ==
    LET gone == Expired(S, t)
    IN  [S EXCEPT
           !.nb = [k \in DOMAIN S.nb |->
                     IF S.nb[k][1] \in gone THEN <<S.nb[k][1], Inf>> ELSE S.nb[k]],
           !.nv = [n \in DOMAIN S.nv \ gone |-> S.nv[n]]]

\* logic.maintenance() at time t
Maintenance(self, S, t) ==
    LET gone == Expired(S, t)
        nb == [k \in DOMAIN S.nb |->
                 IF S.nb[k][1] \in gone THEN <<S.nb[k][1], Inf>> ELSE S.nb[k]]
        nv == [n \in DOMAIN S.nv \ gone |-> S.nv[n]]
    IN  IF gone = {}
        THEN S
        ELSE [S EXCEPT !.nb = nb, !.nv = nv, !.rt = Recompute(self, nb, nv)]

-----------------------------------------------------------------------------
(* dv.py: the topology file *)

\* load_topology_file lines 35-50: the link lines incident to my_id, in file order
RECURSIVE LoadNeighbors(_, _, _, _)
LoadNeighbors(lines, my_id, k, acc) ==
    IF k > Len(lines)
    THEN acc
    ELSE LET a == lines[k][1]
             b == lines[k][2]
             cost == ParseCost(lines[k][3])
         IN  LoadNeighbors(lines, my_id, k + 1,
                 IF a = my_id THEN SetCost(acc, b, cost)
                 ELSE IF b = my_id THEN SetCost(acc, a, cost)
                 ELSE acc)

\* The spec's scenario topology: three servers, fully connected, unit costs
Triangle == << <<1, 2, "1">>, <<1, 3, "1">>, <<2, 3, "1">> >>

\* A connected line 1 - 2 - 3 whose first link costs nothing
ZeroLine == << <<1, 2, "0">>, <<2, 3, "1">> >>

\* The link lines of the topology files the daemons are started with
Topologies == {Triangle, ZeroLine}

-----------------------------------------------------------------------------
(* The daemons *)

NodeState(i) ==
    [nb |-> neighbors[i], nv |-> neighbor_vectors[i],
     ls |-> last_seen[i], rt |-> routing[i]]

Install(i, S) ==
    /\ neighbors' = [neighbors EXCEPT ![i] = S.nb]
    /\ neighbor_vectors' = [neighbor_vectors EXCEPT ![i] = S.nv]
    /\ last_seen' = [last_seen EXCEPT ![i] = S.ls]
    /\ routing' = [routing EXCEPT ![i] = S.rt]

\* ascending list of a set of ids (sorted())
RECURSIVE Sorted(_)
Sorted(ids) ==
    IF ids = {}
    THEN << >>
    ELSE LET m == CHOOSE m \in ids : \A x \in ids : m <= x
         IN  <<m>> \o Sorted(ids \ {m})

\* cli.display lines 148-157: one <<dest, next hop, cost>> line per route
DisplayLines(rt) ==
    LET dests == Sorted(DOMAIN rt)
    IN  [k \in DOMAIN dests |->
            <<dests[k],
              IF rt[dests[k]][1] # None THEN rt[dests[k]][1] ELSE 0 - 1,
              IF rt[dests[k]][2] < Inf THEN rt[dests[k]][2] ELSE 65535>>]

\* the data lines and the terminator lines of a console command
Reply(lines, terminator) == [lines |-> lines, reply |-> <<terminator>>]

\* an operation that prints nothing on standard output
Silent == [lines |-> << >>, reply |-> << >>]

\* The daemon whose threads and routing state are followed alone
Self == 1

\* dv.main and network.py start three threads: the console (command_loop),
\* the receive loop and the periodic loop
Threads == {"console", "receive", "periodic"}

\* a thread between two operations: no operation, no new_table, no payload,
\* no counter value loaded
Idle == [pc |-> "idle", op |-> <<"", 0, "">>, vec |-> << >>,
         table |-> << >>, payload |-> << >>, count |-> 0]

\* dv.main: every daemon is started on the same topology file at time 0
InitOn(topo) ==
    /\ neighbors = [i \in Servers |-> LoadNeighbors(topo, i, 1, << >>)]
    /\ neighbor_vectors = [i \in Servers |-> << >>]
    /\ last_seen = [i \in Servers |->
                      InitState(i, LoadNeighbors(topo, i, 1, << >>), 0).ls]
    /\ routing = [i \in Servers |->
                    InitState(i, LoadNeighbors(topo, i, 1, << >>), 0).rt]
    /\ alive = [i \in Servers |-> TRUE]
    /\ now = 0
    /\ out = Silent
    /\ last = <<"init", 0, 0, "">>
    /\ inbox = [i \in Servers |-> << >>]
    /\ due = [i \in Servers |-> UPDATE_INTERVAL]
    /\ cmds = 0
    /\ thr = [t \in Threads |-> Idle]
    /\ installed = {routing[Self]}
    /\ pkt_count = 0
    /\ accepted = 0
    /\ reported = 0

Init == InitOn(Triangle)

\* console: update <a> <b> <cost> (cli.update)
CmdUpdate(i, a, b, tok) ==
    /\ alive[i]
    /\ Install(i, IF i \in {a, b} THEN UpdateLink(i, NodeState(i), a, b, tok)
                  ELSE NodeState(i))
    /\ out' = Reply(<< >>, "update SUCCESS")
    /\ last' = <<"update", i, IF i \in {a, b} THEN (IF i = a THEN b ELSE a) ELSE 0, tok>>
    /\ UNCHANGED <<alive, now>>

\* cli.disable line 178 without its test of the cost
NotANeighborByKey(nb, nid) == nid \notin Keys(nb)

\* cli.disable line 178: nid is no key of neighbors or its cost is inf
NotANeighbor(nb, nid) == nid \notin Keys(nb) \/ CostOf(nb, nid, Inf) = Inf

\* console: disable <nid> (cli.disable)
CmdDisable(i, nid) ==
    /\ alive[i]
    /\ IF NotANeighbor(neighbors[i], nid)
       THEN /\ out' = Reply(<< >>, "disable not_a_neighbor")
            /\ last' = <<"disable_refused", i, nid, "">>
            /\ UNCHANGED <<neighbors, neighbor_vectors, last_seen, routing>>
       ELSE /\ Install(i, UpdateLink(i, NodeState(i), i, nid, "inf"))
            /\ out' = Reply(<< >>, "disable SUCCESS")
            /\ last' = <<"disable", i, nid, "inf">>
    /\ UNCHANGED <<alive, now>>

\* console: display (cli.display)
CmdDisplay(i) ==
    /\ alive[i]
    /\ out' = Reply(DisplayLines(routing[i]), "display SUCCESS")
    /\ last' = <<"display", i, 0, "">>
    /\ UNCHANGED <<neighbors, neighbor_vectors, last_seen, routing, alive, now>>

\* the crash loop stopping after the first key
CrashFirstLink(self, S, nids) ==
    IF nids = << >> THEN S ELSE UpdateLink(self, S, self, Head(nids), "inf")

\* cli.crash lines 201-202: update_link(my_id, nid, "inf") for every key
RECURSIVE CrashLinks(_, _, _)
CrashLinks(self, S, nids) ==
    IF nids = << >>
    THEN S
    ELSE CrashLinks(self, UpdateLink(self, S, self, Head(nids), "inf"), Tail(nids))

\* console: crash (cli.crash), the process exits
CmdCrash(i) ==
    /\ alive[i]
    /\ Install(i, CrashLinks(i, NodeState(i),
                             [k \in DOMAIN neighbors[i] |-> neighbors[i][k][1]]))
    /\ alive' = [alive EXCEPT ![i] = FALSE]
    /\ out' = Reply(<< >>, "crash SUCCESS")
    /\ last' = <<"crash", i, 0, "inf">>
    /\ UNCHANGED now

\* The cost fields a datagram can carry, as unpack_update decodes them
WireCosts == {0, 1, Inf}

\* The vectors a peer s sends to daemon i: one entry per server (pack_update),
\* cost 0 for itself, a finite cost for i (s only sends over links that are up
\* on its side) and a cost of at least 1, or infinity, for every third server
VectorsOf(s, i) ==
    {v \in [Servers -> WireCosts] :
        /\ v[s] = 0
        /\ v[i] < Inf
        /\ \A d \in Servers \ {s, i} : v[d] > 0}

\* receive_loop: a datagram of server s is decoded and handed to handle_update
Deliver(i, s, vector) ==
    /\ alive[i]
    /\ Install(i, HandleUpdate(i, NodeState(i), s, vector, now))
    /\ out' = [lines |-> << <<s>> >>, reply |-> << >>]
    /\ last' = <<"handle_update", i, s, "">>
    /\ UNCHANGED <<alive, now>>

\* the periodic loop's call of logic.maintenance()
Sweep(i) ==
    /\ alive[i]
    /\ Install(i, Maintenance(i, NodeState(i), now))
    /\ out' = Silent
    /\ last' = <<"maintenance", i, 0, "">>
    /\ UNCHANGED <<alive, now>>

\* time passes: one timeout period goes by without any operation
Elapse ==
    /\ now < MaxTicks * Timeout
    /\ now' = now + Timeout
    /\ out' = Silent
    /\ last' = <<"elapse", 0, 0, "">>
    /\ UNCHANGED <<neighbors, neighbor_vectors, last_seen, routing, alive>>

-----------------------------------------------------------------------------
(* Spec: the routing state of one daemon under every console command and   *)
(* every datagram its peers can send                                       *)

Next ==
    \/ \E a, b \in Servers, tok \in CostTokens :
          CmdUpdate(Self, a, b, tok) /\ UNCHANGED otherVars
    \/ \E nid \in Servers : CmdDisable(Self, nid) /\ UNCHANGED otherVars
    \/ CmdCrash(Self) /\ UNCHANGED otherVars
    \/ \E s \in Servers \ {Self} : \E v \in VectorsOf(s, Self) :
          Deliver(Self, s, v) /\ UNCHANGED otherVars
    \/ Sweep(Self) /\ UNCHANGED otherVars
    \/ Elapse /\ UNCHANGED otherVars

Spec == Init /\ [][Next]_vars

-----------------------------------------------------------------------------
(* network.py: the datagrams *)

\* pack_update line 62: the 16-bit cost field of destination d
CostField(rt, d) ==
    IF Get(rt, d, <<None, Inf>>)[2] < Inf THEN Get(rt, d, <<None, Inf>>)[2] ELSE 65535

\* pack_update: the sender and one cost field per server of the registry;
\* struct.pack("!H", ...) raises on a field outside 0..65535
PackUpdate(i, rt) ==
    [sender |-> i, costs |-> [d \in Servers |-> CostField(rt, d)]]

PackRaises(rt) == \E d \in Servers : CostField(rt, d) \notin 0..65535

\* unpack_update lines 96-116: the decoded vector
UnpackUpdate(data) ==
    [d \in DOMAIN data.costs |->
        IF data.costs[d] = 65535 THEN Inf ELSE data.costs[d]]

\* the loop without the test of line 149: the payload goes to every neighbor
RECURSIVE SendLoopToAll(_, _, _, _, _)
SendLoopToAll(nbrs, k, payload, boxes, fails) ==
    IF k > Len(nbrs)
    THEN boxes
    ELSE IF nbrs[k][1] \notin Servers \/ nbrs[k][1] \in fails
    THEN boxes
    ELSE SendLoopToAll(nbrs, k + 1, payload,
             IF alive[nbrs[k][1]]
             THEN [boxes EXCEPT ![nbrs[k][1]] = Append(@, payload)]
             ELSE boxes,
             fails)

\* send_to_neighbors lines 147-150: the payload goes to every neighbor with
\* a finite cost, in dict order; servers[nid] raises for an id outside the
\* registry, sock.sendto raises for the destinations in fails, and the one
\* try around the loop then skips the rest of it; a dead peer reads nothing
RECURSIVE SendLoop(_, _, _, _, _)
SendLoop(nbrs, k, payload, boxes, fails) ==
    IF k > Len(nbrs)
    THEN boxes
    ELSE IF nbrs[k][1] \notin Servers
    THEN boxes
    ELSE IF nbrs[k][2] < Inf /\ nbrs[k][1] \in fails
    THEN boxes
    ELSE SendLoop(nbrs, k + 1, payload,
             IF nbrs[k][2] < Inf /\ alive[nbrs[k][1]]
             THEN [boxes EXCEPT ![nbrs[k][1]] = Append(@, payload)]
             ELSE boxes,
             fails)

\* network.send_to_neighbors() of daemon i with state S, when sock.sendto
\* raises for the destinations in fails
SendToNeighbors(i, S, boxes, fails) ==
    IF PackRaises(S.rt)
    THEN boxes
    ELSE SendLoop(S.nb, 1, PackUpdate(i, S.rt), boxes, fails)

\* start_periodic_updates lines 164-165: one iteration of the periodic loop,
\* maintenance and then the broadcast
Periodic(i, fails) ==
    /\ alive[i]
    /\ Install(i, Maintenance(i, NodeState(i), now))
    /\ inbox' = SendToNeighbors(i, Maintenance(i, NodeState(i), now), inbox, fails)
    /\ out' = Silent
    /\ last' = <<"periodic", i, 0, "">>
    /\ UNCHANGED <<alive, now>>

\* start_periodic_updates lines 162-165: the sleep ends and the iteration
\* runs; no datagram is lost
PeriodicTick(i) ==
    /\ due[i] = now
    /\ Periodic(i, {})
    /\ due' = [due EXCEPT ![i] = now + UPDATE_INTERVAL]
    /\ UNCHANGED <<cmds, threadVars, countVars>>

\* receive_loop: the next datagram of the socket is decoded and handled
Receive(i) ==
    /\ alive[i]
    /\ inbox[i] # << >>
    /\ Deliver(i, Head(inbox[i]).sender, UnpackUpdate(Head(inbox[i])))
    /\ inbox' = [inbox EXCEPT ![i] = Tail(@)]
    /\ UNCHANGED <<due, cmds, threadVars, countVars>>

\* one clock unit passes: every periodic loop has run its iteration and
\* every receive loop has emptied its socket
Passes(limit) ==
    /\ now < limit
    /\ \A i \in Servers : alive[i] => due[i] > now /\ inbox[i] = << >>
    /\ now' = now + 1
    /\ out' = Silent
    /\ last' = <<"elapse", 0, 0, "">>
    /\ UNCHANGED <<neighbors, neighbor_vectors, last_seen, routing, alive,
                   inbox, due, cmds, threadVars, countVars>>

\* one clock unit of the mesh passes
Advance == Passes(MaxTime)

\* a console command of the mesh, counted
Counted ==
    /\ cmds < MaxCmds
    /\ cmds' = cmds + 1
    /\ UNCHANGED <<inbox, due, threadVars, countVars>>

-----------------------------------------------------------------------------
(* SpecMesh: the daemons of one topology file, started together, exchanging *)
(* their vectors every interval, with disable and display at the consoles   *)

InitMesh == \E topo \in Topologies : InitOn(topo)

NextMesh ==
    \/ \E i \in Servers : PeriodicTick(i)
    \/ \E i \in Servers : Receive(i)
    \/ Advance
    \/ \E i, nid \in Servers : CmdDisable(i, nid) /\ Counted
    \/ \E i \in Servers : CmdDisplay(i) /\ Counted

SpecMesh == InitMesh /\ [][NextMesh]_vars

-----------------------------------------------------------------------------
(* cli.py: the console of daemon Self, line by line *)

\* console: step (cli.step); send_to_neighbors catches its own exceptions
CmdStep(i, fails) ==
    /\ alive[i]
    /\ inbox' = SendToNeighbors(i, NodeState(i), inbox, fails)
    /\ out' = Reply(<< >>, "step SUCCESS")
    /\ last' = <<"step", i, IF fails = {} THEN 0 ELSE CHOOSE j \in fails : TRUE, "">>
    /\ UNCHANGED <<neighbors, neighbor_vectors, last_seen, routing, alive, now>>

\* console: packets (cli.packets), taken whole
CmdPackets(i) ==
    /\ alive[i]
    /\ out' = Reply(<< <<pkt_count>> >>, "packets SUCCESS")
    /\ pkt_count' = 0
    /\ reported' = reported + pkt_count
    /\ last' = <<"packets", i, 0, "">>
    /\ UNCHANGED <<neighbors, neighbor_vectors, last_seen, routing, alive, now>>

\* a command that only prints one line
ConsoleReplies(i, cmd, text) ==
    /\ out' = Reply(<< >>, text)
    /\ last' = <<"replied", i, 0, cmd>>
    /\ UNCHANGED <<neighbors, neighbor_vectors, last_seen, routing, alive, now>>

\* command_loop lines 28, 29 and 56: int() raises ValueError outside every
\* try, the main thread ends with a traceback on standard error and the
\* daemon threads end with it
ConsoleDies(i, cmd) ==
    /\ alive' = [alive EXCEPT ![i] = FALSE]
    /\ out' = Silent
    /\ last' = <<"uncaught", i, 0, cmd>>
    /\ UNCHANGED <<neighbors, neighbor_vectors, last_seen, routing, now>>

\* what a console line leaves alone besides the routing state
lineFrame == <<due, cmds, threadVars>>

\* command_loop lines 16-67: one non-blank line, split into parts
ConsoleLine(i, parts, fails) ==
    /\ alive[i]
    /\ LET cmd == parts[1]
       IN  CASE cmd = "update" ->
                  /\ IF Len(parts) # 4
                     THEN ConsoleReplies(i, cmd, "update invalid_arguments")
                     ELSE IF ~IsInt(parts[2]) \/ ~IsInt(parts[3])
                     THEN ConsoleDies(i, cmd)
                     ELSE IF i \in {IntOf(parts[2]), IntOf(parts[3])}
                             /\ ~CostParses(parts[4])
                     THEN ConsoleReplies(i, cmd,
                              "update could not convert string to float: '"
                                  \o parts[4] \o "'")
                     ELSE CmdUpdate(i, IntOf(parts[2]), IntOf(parts[3]), parts[4])
                  /\ UNCHANGED <<inbox, countVars>>
             [] cmd = "step" ->
                  /\ CmdStep(i, fails)
                  /\ UNCHANGED countVars
             [] cmd = "packets" ->
                  /\ CmdPackets(i)
                  /\ UNCHANGED <<inbox, accepted>>
             [] cmd = "display" ->
                  /\ CmdDisplay(i)
                  /\ UNCHANGED <<inbox, countVars>>
             [] cmd = "disable" ->
                  /\ IF Len(parts) # 2
                     THEN ConsoleReplies(i, cmd, "disable invalid_arguments")
                     ELSE IF ~IsInt(parts[2])
                     THEN ConsoleDies(i, cmd)
                     ELSE CmdDisable(i, IntOf(parts[2]))
                  /\ UNCHANGED <<inbox, countVars>>
             [] cmd = "crash" ->
                  /\ CmdCrash(i)
                  /\ UNCHANGED <<inbox, countVars>>
             [] OTHER ->
                  /\ ConsoleReplies(i, cmd, cmd \o " unknown_command")
                  /\ UNCHANGED <<inbox, countVars>>
    /\ UNCHANGED lineFrame

\* The console lines daemon Self is given
Lines ==
    { <<"update", "1", "2", "1">>, <<"update", "1", "2", "inf">>,
      <<"update", "1", "2", "-1">>, <<"update", "1", "2", "65535">>,
      <<"update", "2", "3", "1">>, <<"update", "2", "3", "abc">>,
      <<"update", "1", "2", "abc">>, <<"update", "a", "b", "1">>,
      <<"update", "1", "2">>,
      <<"disable", "2">>, <<"disable", "3">>, <<"disable", "x">>, <<"disable">>,
      <<"display">>, <<"packets">>, <<"step">>, <<"crash">>, <<"frobnicate">> }

\* The receive loop accepts this many datagrams
MaxPkts == 2

\* A peer's socket holds this many unread datagrams
MaxQueue == 1

\* receive_loop lines 125-135 taken whole: the datagram of server s is
\* decoded, counted, announced and handed to handle_update
Accept(i, s, vector) ==
    /\ accepted < MaxPkts
    /\ pkt_count' = pkt_count + 1
    /\ accepted' = accepted + 1
    /\ Deliver(i, s, vector)
    /\ UNCHANGED <<inbox, reported, due, cmds, threadVars>>

\* a peer's receive loop takes the next datagram out of its socket; the
\* standard output of daemon Self stays as it is
PeerReads(j) ==
    /\ inbox[j] # << >>
    /\ inbox' = [inbox EXCEPT ![j] = Tail(@)]
    /\ last' = <<"peer_reads", j, 0, "">>
    /\ UNCHANGED <<neighbors, neighbor_vectors, last_seen, routing, alive, now,
                   out, due, cmds, threadVars, countVars>>

\* the sockets of the peers have room
SocketsHaveRoom == \A j \in Servers : Len(inbox[j]) < MaxQueue

\* the sendto failures of one broadcast: none, or one destination
Failures == {{}} \cup {{j} : j \in Servers \ {Self}}

-----------------------------------------------------------------------------
(* SpecConsole: daemon Self under every console line, with its receive loop *)
(* counting the datagrams and its peers reading what it sends              *)

InitConsole == InitOn(Triangle)

NextConsole ==
    \/ \E parts \in Lines, fails \in Failures :
          /\ parts[1] = "step" => SocketsHaveRoom
          /\ parts[1] # "step" => fails = {}
          /\ ConsoleLine(Self, parts, fails)
    \/ \E s \in Servers \ {Self} : \E v \in VectorsOf(s, Self) : Accept(Self, s, v)
    \/ \E j \in Servers \ {Self} : PeerReads(j)
    \/ /\ SocketsHaveRoom
       /\ Periodic(Self, {})
       /\ UNCHANGED <<due, cmds, threadVars, countVars>>

SpecConsole == InitConsole /\ [][NextConsole]_vars

-----------------------------------------------------------------------------
(* The threads of daemon Self, one shared-state access at a time.  No lock   *)
(* guards logic.py's globals: the threads interleave between any two dict    *)
(* operations.  Each step below is one dict operation (or a computation on   *)
(* locals that reads the shared dicts once).                                 *)

\* the thread's locals change, the others' do not
Goto(t, r) == thr' = [thr EXCEPT ![t] = r]

\* an operation of thread t has returned
Done(t) ==
    /\ Goto(t, Idle)
    /\ last' = <<thr[t].op[1], Self, thr[t].op[2], thr[t].op[3]>>

\* an operation begins: the model follows MaxOps of them
MaxOps == 3

Begun ==
    /\ cmds < MaxOps
    /\ cmds' = cmds + 1

\* console thread, update_link line 74: neighbors[other] = new_cost
ConsoleLink(n, tok) ==
    /\ thr["console"].pc = "idle"
    /\ neighbors' = [neighbors EXCEPT ![Self] = SetCost(@, n, ParseCost(tok))]
    /\ Goto("console", [Idle EXCEPT !.pc = "forget", !.op = <<"update", n, tok>>])
    /\ UNCHANGED <<neighbor_vectors, last_seen, routing, installed, last>>

\* console thread, update_link lines 77-78: pop the vector of a link set to inf
ConsoleForget ==
    /\ thr["console"].pc = "forget"
    /\ neighbor_vectors' =
          [neighbor_vectors EXCEPT ![Self] =
              IF ParseCost(thr["console"].op[3]) = Inf
              THEN Pop(@, thr["console"].op[2]) ELSE @]
    /\ Goto("console", [thr["console"] EXCEPT !.pc = "build"])
    /\ UNCHANGED <<neighbors, last_seen, routing, installed, last>>

\* receive thread, handle_update lines 87-99: last_seen, the link check, norm
ReceiveSeen(s, vector) ==
    /\ thr["receive"].pc = "idle"
    /\ last_seen' = [last_seen EXCEPT ![Self] = Put(@, s, now)]
    /\ IF CostOf(neighbors[Self], s, Inf) = Inf
       THEN /\ last' = <<"handle_update", Self, s, "">>
            /\ UNCHANGED thr
       ELSE /\ Goto("receive", [Idle EXCEPT !.pc = "store",
                                            !.op = <<"handle_update", s, "">>,
                                            !.vec = Normalize(vector)])
            /\ UNCHANGED last
    /\ UNCHANGED <<neighbors, neighbor_vectors, routing, installed>>

\* receive thread, handle_update line 101: _neighbor_vectors[s] = norm
ReceiveStore ==
    /\ thr["receive"].pc = "store"
    /\ neighbor_vectors' =
          [neighbor_vectors EXCEPT ![Self] =
              Put(@, thr["receive"].op[2], thr["receive"].vec)]
    /\ Goto("receive", [thr["receive"] EXCEPT !.pc = "build"])
    /\ UNCHANGED <<neighbors, last_seen, routing, installed, last>>

\* periodic thread, maintenance lines 164-183; lines 185-186 recompute when a
\* neighbor expired, and send_to_neighbors follows (network.py line 165)
PeriodicSweep ==
    /\ thr["periodic"].pc = "idle"
    /\ neighbors' = [neighbors EXCEPT ![Self] =
                       MaintenanceNoRecompute(Self, NodeState(Self), now).nb]
    /\ neighbor_vectors' = [neighbor_vectors EXCEPT ![Self] =
                       MaintenanceNoRecompute(Self, NodeState(Self), now).nv]
    /\ Goto("periodic",
            [Idle EXCEPT !.op = <<"periodic", 0, "">>,
                         !.pc = IF Expired(NodeState(Self), now) # {}
                                THEN "build" ELSE "pack"])
    /\ UNCHANGED <<last_seen, routing, installed, last>>

\* _recompute lines 110-153: new_table is computed from the shared dicts
Build(t) ==
    /\ thr[t].pc = "build"
    /\ Goto(t, [thr[t] EXCEPT
                  !.pc = "clear",
                  !.table = Recompute(Self, neighbors[Self], neighbor_vectors[Self])])
    /\ UNCHANGED <<neighbors, neighbor_vectors, last_seen, routing, installed, last>>

\* _recompute line 155: routing.clear()
Clear(t) ==
    /\ thr[t].pc = "clear"
    /\ routing' = [routing EXCEPT ![Self] = << >>]
    /\ Goto(t, [thr[t] EXCEPT !.pc = "fill"])
    /\ UNCHANGED <<neighbors, neighbor_vectors, last_seen, installed, last>>

\* _recompute line 156: routing.update(new_table); the operation returns,
\* and the periodic loop goes on to its broadcast
Fill(t) ==
    /\ thr[t].pc = "fill"
    /\ routing' = [routing EXCEPT ![Self] =
                     [d \in DOMAIN @ \cup DOMAIN thr[t].table |->
                         IF d \in DOMAIN thr[t].table THEN thr[t].table[d] ELSE @[d]]]
    /\ installed' = installed \cup {thr[t].table}
    /\ IF t = "periodic"
       THEN /\ Goto(t, [thr[t] EXCEPT !.pc = "pack", !.table = << >>])
            /\ UNCHANGED last
       ELSE Done(t)
    /\ UNCHANGED <<neighbors, neighbor_vectors, last_seen>>

\* pack_update lines 58-67: one iteration reads routing.get(dest_id) and
\* appends the cost field; struct.pack raises on a field outside 0..65535 and
\* send_to_neighbors catches it
PackEntry ==
    /\ thr["periodic"].pc = "pack"
    /\ LET dest_id == Sorted(Servers)[Len(thr["periodic"].payload) + 1]
           field == CostField(routing[Self], dest_id)
           payload == Append(thr["periodic"].payload, field)
       IN  IF field \notin 0..65535
           THEN Done("periodic")
           ELSE /\ Goto("periodic",
                        [thr["periodic"] EXCEPT
                            !.payload = payload,
                            !.pc = IF Len(payload) = Cardinality(Servers)
                                   THEN "send" ELSE "pack"])
                /\ UNCHANGED last
    /\ UNCHANGED <<neighbors, neighbor_vectors, last_seen, routing, installed>>

\* send_to_neighbors lines 147-150: the payload leaves for the peers, whose
\* sockets are not followed here
SendPayload ==
    /\ thr["periodic"].pc = "send"
    /\ Done("periodic")
    /\ UNCHANGED <<neighbors, neighbor_vectors, last_seen, routing, installed>>

\* what no thread step changes
threadFrame == <<alive, now, out, inbox, due, countVars>>

-----------------------------------------------------------------------------
(* SpecThreads: the three threads of daemon Self in every interleaving *)

InitThreads == InitOn(Triangle)

NextThreads ==
    \/ \E n \in Servers \ {Self}, tok \in {"inf", "1"} :
          ConsoleLink(n, tok) /\ Begun /\ UNCHANGED threadFrame
    \/ ConsoleForget /\ UNCHANGED <<threadFrame, cmds>>
    \/ \E s \in Servers \ {Self} : \E v \in VectorsOf(s, Self) :
          ReceiveSeen(s, v) /\ Begun /\ UNCHANGED threadFrame
    \/ ReceiveStore /\ UNCHANGED <<threadFrame, cmds>>
    \/ PeriodicSweep /\ Begun /\ UNCHANGED threadFrame
    \/ \E t \in Threads : Build(t) /\ UNCHANGED <<threadFrame, cmds>>
    \/ \E t \in Threads : Clear(t) /\ UNCHANGED <<threadFrame, cmds>>
    \/ \E t \in Threads : Fill(t) /\ UNCHANGED <<threadFrame, cmds>>
    \/ PackEntry /\ UNCHANGED <<threadFrame, cmds>>
    \/ SendPayload /\ UNCHANGED <<threadFrame, cmds>>
    \/ Elapse /\ UNCHANGED otherVars

SpecThreads == InitThreads /\ [][NextThreads]_vars

-----------------------------------------------------------------------------
(* SpecLink: one link of daemon Self going down and up, by the console and  *)
(* by the timeout, while the peers keep sending                             *)

\* The console lines about the links of daemon Self
LinkLines ==
    { <<"update", "1", "2", "1">>, <<"update", "1", "2", "inf">>,
      <<"disable", "2">>, <<"disable", "3">>, <<"step">> }

InitLink == InitOn(Triangle)

NextLink ==
    \/ \E parts \in LinkLines :
          /\ parts[1] = "step" => SocketsHaveRoom
          /\ ConsoleLine(Self, parts, {})
    \/ \E s \in Servers \ {Self} : \E v \in VectorsOf(s, Self) : Accept(Self, s, v)
    \/ \E j \in Servers \ {Self} : PeerReads(j)
    \/ /\ SocketsHaveRoom
       /\ Periodic(Self, {})
       /\ UNCHANGED <<due, cmds, threadVars, countVars>>
    \/ Elapse /\ UNCHANGED otherVars

SpecLink == InitLink /\ [][NextLink]_vars

-----------------------------------------------------------------------------
(* SpecCommands: daemon Self under the console lines that command_loop      *)
(* parses, with its receive loop and its peers                              *)

\* The console lines about links, broadcasts and the end of the daemon
CommandLines ==
    { <<"update", "1", "2", "1">>, <<"update", "1", "2", "inf">>,
      <<"update", "2", "3", "1">>, <<"update", "2", "3", "abc">>,
      <<"disable", "2">>, <<"disable", "3">>, <<"step">>, <<"crash">> }

InitCommands == InitOn(Triangle)

NextCommands ==
    \/ \E parts \in CommandLines :
          /\ parts[1] = "step" => SocketsHaveRoom
          /\ ConsoleLine(Self, parts, {})
    \/ \E s \in Servers \ {Self} : \E v \in VectorsOf(s, Self) : Accept(Self, s, v)
    \/ \E j \in Servers \ {Self} : PeerReads(j)
    \/ /\ SocketsHaveRoom
       /\ Periodic(Self, {})
       /\ UNCHANGED <<due, cmds, threadVars, countVars>>

SpecCommands == InitCommands /\ [][NextCommands]_vars

-----------------------------------------------------------------------------
(* SpecRestore: the three daemons, ticking every interval, while the         *)
(* operator takes the link between servers 1 and 2 down at its ends and,    *)
(* where it is down, brings it back                                         *)

\* The two ends of the link the operator works on
Ends == {1, 2}

\* the other end of that link
OtherEnd(i) == IF i = 1 THEN 2 ELSE 1

\* The console line that takes the link down and the one that restores it
DownLine == <<"update", "1", "2", "inf">>
RestoreLine == <<"update", "1", "2", "1">>

\* The daemons are followed for this many intervals
MaxDown == 4

InitRestore == InitOn(Triangle)

NextRestore ==
    \/ \E i \in Ends :
          /\ CostOf(neighbors[i], OtherEnd(i), Inf) < Inf
          /\ ConsoleLine(i, DownLine, {})
    \/ \E i \in Ends :
          /\ CostOf(neighbors[i], OtherEnd(i), Inf) = Inf
          /\ ConsoleLine(i, RestoreLine, {})
    \/ \E i \in Servers : PeriodicTick(i)
    \/ \E i \in Servers : Receive(i)
    \/ Passes(MaxDown)

SpecRestore == InitRestore /\ [][NextRestore]_vars

-----------------------------------------------------------------------------
(* SpecLogic: the functions of logic.py called on daemon Self with every    *)
(* argument, those the console and the wire never produce included          *)

\* The calls followed from init
MaxCalls == 3

\* The costs of the vectors handed to handle_update
VectorCosts == {0 - 1, 0, 1}

\* The vectors handed to handle_update for sender s: cost 0 for s itself, a
\* cost of 0 or more for daemon Self, any cost for the third server
VectorsFor(s) == {v \in [Servers -> VectorCosts] : v[s] = 0 /\ v[Self] >= 0}

Called ==
    /\ cmds < MaxCalls
    /\ cmds' = cmds + 1
    /\ UNCHANGED <<inbox, due, threadVars, countVars>>

\* logic.update_link(a, b, cost_str)
CallUpdateLink(a, b, tok) ==
    /\ Install(Self, UpdateLink(Self, NodeState(Self), a, b, tok))
    /\ out' = Silent
    /\ last' = <<"update_link", Self,
                 IF Self \in {a, b} THEN (IF Self = a THEN b ELSE a) ELSE 0, tok>>
    /\ UNCHANGED <<alive, now>>

\* logic.handle_update(sender_id, vector)
CallHandleUpdate(s, vector) ==
    /\ Install(Self, HandleUpdate(Self, NodeState(Self), s, vector, now))
    /\ out' = Silent
    /\ last' = <<"handle_update", Self, s, vector>>
    /\ UNCHANGED <<alive, now>>

InitLogic == \E topo \in Topologies : InitOn(topo)

NextLogic ==
    \/ \E b \in Servers, tok \in CostTokens : CallUpdateLink(Self, b, tok) /\ Called
    \/ CallUpdateLink(2, 3, "1") /\ Called
    \/ \E s \in Servers \ {Self} : \E v \in VectorsFor(s) :
          CallHandleUpdate(s, v) /\ Called
    \/ Elapse /\ UNCHANGED otherVars

SpecLogic == InitLogic /\ [][NextLogic]_vars

-----------------------------------------------------------------------------
(* SpecCounter: `packets` at the console against the receive loop, one      *)
(* access to network.pkt_count at a time                                    *)

\* what the steps on the counter leave alone
counterFrame == <<alive, now, inbox, due, cmds, installed>>

logicVars == <<neighbors, neighbor_vectors, last_seen, routing>>

\* console thread, cli.packets line 121: print(network.pkt_count)
PacketsPrint ==
    /\ thr["console"].pc = "idle"
    /\ alive[Self]
    /\ out' = [lines |-> << <<pkt_count>> >>, reply |-> << >>]
    /\ reported' = reported + pkt_count
    /\ Goto("console", [Idle EXCEPT !.pc = "reset", !.op = <<"packets", 0, "">>])
    /\ UNCHANGED <<logicVars, pkt_count, accepted, last>>

\* console thread, cli.packets lines 124-127: the reset and the terminator
PacketsReset ==
    /\ thr["console"].pc = "reset"
    /\ pkt_count' = 0
    /\ out' = [out EXCEPT !.reply = <<"packets SUCCESS">>]
    /\ Done("console")
    /\ UNCHANGED <<logicVars, accepted, reported>>

\* receive thread, receive_loop lines 125-131: a datagram of server s is
\* decoded and `pkt_count += 1` loads the counter
ReceiveLoad(s, vector) ==
    /\ thr["receive"].pc = "idle"
    /\ alive[Self]
    /\ accepted < MaxPkts
    /\ Goto("receive", [Idle EXCEPT !.pc = "count",
                                    !.op = <<"handle_update", s, "">>,
                                    !.vec = vector,
                                    !.count = pkt_count])
    /\ UNCHANGED <<logicVars, countVars, out, last>>

\* receive thread, receive_loop lines 131-135: `pkt_count += 1` stores the
\* sum, the datagram is announced and logic.handle_update runs
ReceiveCount ==
    /\ thr["receive"].pc = "count"
    /\ pkt_count' = thr["receive"].count + 1
    /\ accepted' = accepted + 1
    /\ Deliver(Self, thr["receive"].op[2], thr["receive"].vec)
    /\ Goto("receive", Idle)
    /\ UNCHANGED reported

InitCounter == InitOn(Triangle)

NextCounter ==
    \/ PacketsPrint /\ UNCHANGED counterFrame
    \/ PacketsReset /\ UNCHANGED counterFrame
    \/ \E s \in Servers \ {Self} : \E v \in VectorsOf(s, Self) :
          ReceiveLoad(s, v) /\ UNCHANGED counterFrame
    \/ ReceiveCount /\ UNCHANGED <<inbox, due, cmds, installed>>

SpecCounter == InitCounter /\ [][NextCounter]_vars

-----------------------------------------------------------------------------
(* Properties of the routing state of one daemon (Spec) *)

\* C1: in every reachable state routing[self_id] exists and is (none, 0).
SelfRouteIsNoneZero ==
    /\ Self \in DOMAIN routing[Self]
    /\ routing[Self][Self] = <<None, 0>>

\* C2: after every completed operation, every route (h, c) to a destination d
\* has h = none only for d = self_id, and otherwise h is a neighbor whose link
\* cost is finite and c >= neighbors[h].
NextHopsAreLiveNeighbors ==
    \A d \in DOMAIN routing[Self] :
        LET h == routing[Self][d][1]
            c == routing[Self][d][2]
        IN  IF h = None
            THEN d = Self
            ELSE /\ h \in Keys(neighbors[Self])
                 /\ CostOf(neighbors[Self], h, Inf) < Inf
                 /\ c >= CostOf(neighbors[Self], h, Inf)

\* C2 witness: a sweep has just expired a neighbor and the table still routes
\* to it, through the other neighbor, at a cost above that neighbor's link.
MultiHopAfterSweep ==
    /\ last[1] = "maintenance"
    /\ \E d \in DOMAIN routing[Self] \cap DOMAIN last_seen[Self] :
          /\ now - last_seen[Self][d] > 3 * UPDATE_INTERVAL
          /\ CostOf(neighbors[Self], d, Inf) = Inf
          /\ routing[Self][d][1] \notin {None, d}
          /\ routing[Self][d][2] > CostOf(neighbors[Self], routing[Self][d][1], Inf)

\* C7: no operation adds or removes a key of neighbors.
NeighborKeysNeverChange ==
    [][Keys(neighbors'[Self]) = Keys(neighbors[Self])]_vars

\* C8: a maintenance run at time t sets to infinity exactly the neighbors
\* with a finite link cost and t - last_seen[n] > 3 * update_interval, drops
\* their vectors and no others, and recomputes routing when one expired.
MaintenanceExpiresExactly ==
    [][last'[1] = "maintenance" =>
        /\ \A n \in Keys(neighbors[Self]) \cap DOMAIN last_seen[Self] :
             LET was == CostOf(neighbors[Self], n, Inf)
                 late == now - last_seen[Self][n] > 3 * UPDATE_INTERVAL
             IN  IF was < Inf /\ late
                 THEN /\ CostOf(neighbors'[Self], n, Inf) = Inf
                      /\ n \notin DOMAIN neighbor_vectors'[Self]
                 ELSE /\ CostOf(neighbors'[Self], n, Inf) = was
                      /\ (n \in DOMAIN neighbor_vectors[Self] =>
                            /\ n \in DOMAIN neighbor_vectors'[Self]
                            /\ neighbor_vectors'[Self][n] = neighbor_vectors[Self][n])
        /\ (neighbors'[Self] # neighbors[Self] =>
              routing'[Self] = Recompute(Self, neighbors'[Self], neighbor_vectors'[Self]))
        /\ last_seen'[Self] = last_seen[Self]
    ]_vars

\* C8 witness: a sweep has run when one neighbor was silent for more than the
\* timeout, and is down, and another for exactly the timeout, and is still up.
SweepAtTheThreshold ==
    /\ last[1] = "maintenance"
    /\ \E n, m \in DOMAIN last_seen[Self] :
          /\ now - last_seen[Self][n] > 3 * UPDATE_INTERVAL
          /\ CostOf(neighbors[Self], n, Inf) = Inf
          /\ now - last_seen[Self][m] = 3 * UPDATE_INTERVAL
          /\ CostOf(neighbors[Self], m, Inf) < Inf

\* C9: after update_link(self_id, n, "inf") has completed, neighbors[n] is
\* infinity, neighbor_vectors has no entry for n and no route has next hop n.
LinkDownForgetsNeighbor ==
    \A n \in Servers :
        (last[1] \in {"update", "disable"} /\ last[3] = n /\ last[4] = "inf") =>
            /\ CostOf(neighbors[Self], n, 0) = Inf
            /\ n \notin DOMAIN neighbor_vectors[Self]
            /\ \A d \in DOMAIN routing[Self] : routing[Self][d][1] # n

\* C9 witness: the link to a neighbor was taken down and a destination that
\* was routed through it is now routed through the other neighbor.
LinkDownReroutes ==
    \E n \in Servers \ {Self} :
        /\ last = <<"update", Self, n, "inf">>
        /\ n \in DOMAIN routing[Self]
        /\ routing[Self][n][1] \notin {None, n}

-----------------------------------------------------------------------------
(* Properties of the mesh (SpecMesh) *)

\* the cost of the link from i to j as i holds it
LinkCost(i, j) == CostOf(neighbors[i], j, Inf)

\* the cost of the cheapest path from i to d of at most hops links
RECURSIVE PathCost(_, _, _)
PathCost(i, d, hops) ==
    IF i = d THEN 0
    ELSE IF hops = 0 THEN Inf
    ELSE LET via == {Plus(LinkCost(i, n), PathCost(n, d, hops - 1)) :
                        n \in Servers \ {i}}
         IN  CHOOSE c \in via : \A x \in via : c <= x

ShortestCost(i, d) == PathCost(i, d, Cardinality(Servers) - 1)

\* every table holds, for every other server, the shortest-path cost and a
\* next hop on a shortest path
ShortestPathTables ==
    \A i \in Servers : \A d \in Servers \ {i} :
        /\ d \in DOMAIN routing[i]
        /\ routing[i][d][2] = ShortestCost(i, d)
        /\ routing[i][d][1] \in Servers \ {i}
        /\ Plus(LinkCost(i, routing[i][d][1]), ShortestCost(routing[i][d][1], d))
              = ShortestCost(i, d)

\* nothing is in flight and every daemon holds, from every neighbor whose link
\* is up, the vector of that neighbor's present table: further broadcasts
\* deliver the same vectors and leave every table as it is
Stable ==
    /\ \A i \in Servers : alive[i] /\ inbox[i] = << >>
    /\ \A i \in Servers : \A n \in FiniteKeys(neighbors[i]) :
          /\ n \in DOMAIN neighbor_vectors[i]
          /\ neighbor_vectors[i][n] = UnpackUpdate(PackUpdate(n, routing[n]))

\* the link costs are those of a connected topology with symmetric links
ConnectedMesh ==
    /\ \A i, j \in Servers : i # j => LinkCost(i, j) = LinkCost(j, i)
    /\ \A i, d \in Servers : ShortestCost(i, d) < Inf

\* C3: with a fixed connected topology, no loss and no console command, the
\* tables end at the shortest-path costs and next hops and stay there; so a
\* state the exchange can no longer change holds shortest-path tables.
ConvergesToShortestPaths ==
    (cmds = 0 /\ ConnectedMesh /\ Stable) => ShortestPathTables

\* C4: no two daemons a and b route to a third destination d through each
\* other.
NoTwoNodeLoop ==
    \A a, b \in Servers : \A d \in Servers \ {a, b} :
        ~ /\ a # b
          /\ d \in DOMAIN routing[a] /\ routing[a][d][1] = b
          /\ d \in DOMAIN routing[b] /\ routing[b][d][1] = a

\* `disable 2` was the last operation, on server 1 of the triangle with unit
\* costs, whose tables were the converged ones when it was issued
DisabledInConvergedTriangle ==
    /\ last = <<"disable", 1, 2, "inf">>
    /\ cmds = 1
    /\ neighbors[1] = << <<2, Inf>>, <<3, 1>> >>
    /\ neighbors[2] = << <<1, 1>>, <<3, 1>> >>
    /\ neighbors[3] = << <<1, 1>>, <<2, 1>> >>
    /\ routing[2] = (1 :> <<1, 1>>) @@ (2 :> <<None, 0>>) @@ (3 :> <<3, 1>>)
    /\ routing[3] = (1 :> <<1, 1>>) @@ (2 :> <<2, 1>>) @@ (3 :> <<None, 0>>)

\* C10 as stated: the display that follows `disable 2` on server 1 shows the
\* lines `2 -1 65535` and `3 3 1`.
DisableShowsUnreachable ==
    [][(DisabledInConvergedTriangle /\ last' = <<"display", 1, 0, "">>) =>
        /\ \E k \in DOMAIN out'.lines : out'.lines[k] = <<2, 0 - 1, 65535>>
        /\ \E k \in DOMAIN out'.lines : out'.lines[k] = <<3, 3, 1>>
    ]_vars

\* C10 amended: that display shows `3 3 1` and, for destination 2, the route
\* through server 3, `2 3 2`, when server 1 holds the vector of server 3, and
\* no line when it holds none.
DisableShowsDetour ==
    [][(DisabledInConvergedTriangle /\ last' = <<"display", 1, 0, "">>) =>
        /\ out'.reply = <<"display SUCCESS">>
        /\ out'.lines =
             IF 3 \in DOMAIN neighbor_vectors[1]
             THEN << <<1, 0 - 1, 0>>, <<2, 3, 2>>, <<3, 3, 1>> >>
             ELSE << <<1, 0 - 1, 0>>, <<3, 3, 1>> >>
    ]_vars

\* C10 witness: server 1 has disabled its link to 2 and its display shows the
\* detour through 3.
DisplayAfterDisable ==
    /\ last = <<"display", 1, 0, "">>
    /\ cmds = 2
    /\ neighbors[1] = << <<2, Inf>>, <<3, 1>> >>
    /\ now - last_seen[1][2] <= 3 * UPDATE_INTERVAL
    /\ out.lines = << <<1, 0 - 1, 0>>, <<2, 3, 2>>, <<3, 3, 1>> >>

-----------------------------------------------------------------------------
(* Properties of the threads of one daemon (SpecThreads) *)

\* the cost fields pack_update writes for table T
PackedCosts(T) ==
    [k \in 1..Cardinality(Servers) |-> CostField(T, Sorted(Servers)[k])]

\* C5: the table a broadcast serializes is one that init or one completed
\* recompute produced, never a cleared or half-written one.
BroadcastsCompletedTables ==
    thr["periodic"].pc = "send" =>
        \E T \in installed : thr["periodic"].payload = PackedCosts(T)

\* C6: when no operation is under way, neighbor_vectors has no entry for a
\* neighbor whose link cost is infinity.
NoVectorOfDeadLink ==
    (\A t \in Threads : thr[t].pc = "idle") =>
        \A n \in DOMAIN neighbor_vectors[Self] :
            CostOf(neighbors[Self], n, Inf) < Inf

-----------------------------------------------------------------------------
(* Properties of the console of one daemon (SpecConsole) *)

\* the lines a command may end its output with
Terminators ==
    {parts[1] \o suffix :
        parts \in Lines,
        suffix \in {" SUCCESS", " invalid_arguments", " not_a_neighbor",
                    " unknown_command"}}

\* the last operation was a console line other than crash
LineRead ==
    /\ last[2] = Self
    /\ last[1] \in {"update", "disable", "disable_refused", "display", "packets",
                    "step", "replied", "uncaught"}

\* C11: whatever the console line, the console prints exactly one terminator
\* line ending in SUCCESS, invalid_arguments, not_a_neighbor or
\* unknown_command and is alive to read the next line.
EveryLineIsAnswered ==
    LineRead =>
        /\ alive[Self]
        /\ Len(out.reply) = 1
        /\ out.reply[1] \in Terminators

\* C12: a broadcast hands the same datagram to every neighbor whose link
\* cost is finite and to no other; when sendto fails for one neighbor
\* (last'[3]) every other neighbor with a finite cost is still sent it.
BroadcastReachesEveryLiveLink ==
    [][last'[1] = "step" =>
        \A j \in Servers \ {Self, last'[3]} :
            inbox'[j] =
                IF CostOf(neighbors[Self], j, Inf) < Inf
                THEN Append(inbox[j], PackUpdate(Self, routing[Self]))
                ELSE inbox[j]
    ]_vars

\* C14: a negative cost token is clamped: neighbors never holds a negative
\* link cost.
NoNegativeLinkCost ==
    \A k \in DOMAIN neighbors[Self] : neighbors[Self][k][2] >= 0

\* the cost daemon Self holds for destination d, infinity when it has no route
RoutingCost(d) == Get(routing[Self], d, <<None, Inf>>)[2]

\* C15: the datagram a broadcast builds decodes, on a peer with the same
\* registry, to the sender's id and one entry per server whose cost is the
\* sender's routing cost, infinity exactly when the sender has no finite route.
WireRoundTrip ==
    [][(last'[1] = "step" /\ \A d \in Servers : RoutingCost(d) >= 0) =>
        /\ ~PackRaises(routing[Self])
        /\ PackUpdate(Self, routing[Self]).sender = Self
        /\ DOMAIN UnpackUpdate(PackUpdate(Self, routing[Self])) = Servers
        /\ \A d \in Servers :
              UnpackUpdate(PackUpdate(Self, routing[Self]))[d] = RoutingCost(d)
    ]_vars

CrashEndsTheDaemon ==
    [][/\ last'[1] = "crash" =>
              /\ \A k \in DOMAIN neighbors'[Self] : neighbors'[Self][k][2] = Inf
              /\ Keys(neighbors'[Self]) = Keys(neighbors[Self])
              /\ neighbor_vectors'[Self] = << >>
              /\ routing'[Self] = (Self :> <<None, 0>>)
              /\ out' = Reply(<< >>, "crash SUCCESS")
              /\ ~alive'[Self]
              /\ inbox' = inbox
       /\ ~alive[Self] =>
              /\ ~alive'[Self]
              /\ \A j \in Servers : Len(inbox'[j]) <= Len(inbox[j])
              /\ UNCHANGED <<neighbors, neighbor_vectors, last_seen, routing,
                             pkt_count, out>>
    ]_vars

\* C17 witness: the daemon crashed while it held routes through its neighbors
\* and a peer has since read a datagram the daemon had sent before.
CrashedAfterBroadcast ==
    /\ ~alive[Self]
    /\ last[1] = "peer_reads"
    /\ out = Reply(<< >>, "crash SUCCESS")
    /\ routing[Self] = (Self :> <<None, 0>>)
    /\ accepted > 0

-----------------------------------------------------------------------------
(* Properties of the functions of logic.py (SpecLogic) *)

\* the costs of the ways to destination d the Bellman-Ford step has: the
\* direct link, and each finite neighbor n that is not filtered, at
\* neighbors[n] + neighbor_vectors[n][d]
WaysTo(d) ==
    LET nb == neighbors[Self]
        nv == neighbor_vectors[Self]
        vec(n) == Get(nv, n, << >>)
    IN  {<<d, CostOf(nb, d, Inf)>>} \cup
        {<<n, Plus(CostOf(nb, n, Inf), Get(vec(n), d, Inf))>> :
            n \in {n \in FiniteKeys(nb) : ~(Get(vec(n), Self, Inf) = 0 /\ d # n)}}

\* the least of those costs
LeastCostTo(d) ==
    LET costs == {w[2] : w \in WaysTo(d)}
    IN  CHOOSE c \in costs : \A x \in costs : c <= x

\* C18: the installed table is the Bellman-Ford step of (neighbors,
\* neighbor_vectors): the self route is (none, 0); every other destination
\* has the least cost over the direct link and the unfiltered finite
\* neighbors, through a next hop that attains it, the direct link on equal
\* cost; a destination whose least cost is infinity has no entry.
RecomputeIsBellmanFord ==
    LET rt == routing[Self]
        dests == Servers \cup DOMAIN rt
    IN  /\ Self \in DOMAIN rt /\ rt[Self] = <<None, 0>>
        /\ \A d \in dests \ {Self} :
              IF LeastCostTo(d) = Inf
              THEN d \notin DOMAIN rt
              ELSE /\ d \in DOMAIN rt
                   /\ rt[d][2] = LeastCostTo(d)
                   /\ rt[d] \in WaysTo(d)
                   /\ CostOf(neighbors[Self], d, Inf) = LeastCostTo(d) => rt[d][1] = d

\* the same with daemon Self no key of its own neighbors
BellmanFordWithoutSelfLink ==
    Self \notin Keys(neighbors[Self]) => RecomputeIsBellmanFord

\* C19: handle_update(s, V) sets last_seen[s] to the present time; when the
\* link to s is finite it replaces neighbor_vectors[s] by V with the negative
\* costs turned into infinity and recomputes routing; when the link is at
\* infinity or s is no neighbor, nothing else changes.
HandleUpdateEffect ==
    [][last'[1] = "handle_update" =>
        LET s == last'[3]
            V == last'[4]
            norm == [d \in DOMAIN V |-> IF V[d] < 0 THEN Inf ELSE V[d]]
        IN  /\ last_seen'[Self] = Put(last_seen[Self], s, now)
            /\ neighbors' = neighbors
            /\ IF CostOf(neighbors[Self], s, Inf) < Inf
               THEN /\ neighbor_vectors'[Self] = Put(neighbor_vectors[Self], s, norm)
                    /\ routing'[Self] =
                          Recompute(Self, neighbors[Self], neighbor_vectors'[Self])
               ELSE /\ neighbor_vectors' = neighbor_vectors
                    /\ routing' = routing
    ]_vars

\* C19 witness: a vector with a negative cost was handled after time had
\* passed and the negative cost is stored as infinity.
NegativeCostHandled ==
    /\ last[1] = "handle_update"
    /\ now > 0
    /\ last_seen[Self][last[3]] = now
    /\ \E d \in Servers :
          /\ last[4][d] < 0
          /\ neighbor_vectors[Self][last[3]][d] = Inf

-----------------------------------------------------------------------------
(* Properties of the links of one daemon (SpecLink) *)

\* C20: a link cost leaves infinity only by an update with a finite cost;
\* a datagram of a neighbor at infinity refreshes last_seen and is counted
\* but leaves the link at infinity, and no broadcast goes to such a neighbor.
LinkComesUpOnlyByUpdate ==
    [][/\ \A n \in Servers :
             (/\ CostOf(neighbors[Self], n, Inf) = Inf
              /\ CostOf(neighbors'[Self], n, Inf) < Inf) =>
                 /\ last'[1] = "update"
                 /\ last'[3] = n
                 /\ ParseCost(last'[4]) < Inf
       /\ (/\ last'[1] = "handle_update"
           /\ CostOf(neighbors[Self], last'[3], Inf) = Inf) =>
              /\ last_seen'[Self][last'[3]] = now
              /\ pkt_count' = pkt_count + 1
              /\ UNCHANGED <<neighbors, neighbor_vectors, routing>>
       /\ last'[1] \in {"step", "periodic"} =>
              \A j \in Servers :
                  CostOf(neighbors'[Self], j, Inf) = Inf => inbox'[j] = inbox[j]
    ]_vars

\* C20 witness: the link to server 2 is at infinity, two datagrams of server
\* 2 have been counted since time passed, and the broadcast that followed
\* went to server 3 alone.
DeadLinkStaysDown ==
    /\ last[1] = "periodic"
    /\ CostOf(neighbors[Self], 2, Inf) = Inf
    /\ now > 0
    /\ last_seen[Self][2] = now
    /\ pkt_count = 2
    /\ inbox[2] = << >>
    /\ inbox[3] # << >>

-----------------------------------------------------------------------------
(* Properties of the packet counter (SpecCounter) *)

\* C13: every datagram the receive loop accepted is counted in exactly one
\* report: between operations, the counts `packets` has printed plus the
\* present pkt_count equal the number of datagrams accepted.
EveryDatagramReportedOnce ==
    (thr["console"].pc = "idle" /\ thr["receive"].pc = "idle") =>
        reported + pkt_count = accepted

-----------------------------------------------------------------------------
(* Properties of a link that is brought back (SpecRestore) *)

\* the last operation was the console line that restored the link of daemon i
\* to the other end, which was at infinity
Restored(i) ==
    /\ last = <<"update", i, OtherEnd(i), RestoreLine[4]>>
    /\ CostOf(neighbors[i], OtherEnd(i), Inf) < Inf

\* C21: when update_link has set a finite cost for a link that was at
\* infinity, the periodic iteration that follows at once, no time having
\* passed since the update, leaves that link finite: maintenance expires a
\* restored link only after more than 3 * update_interval without a datagram
\* since the update.
RestoredLinkSurvivesTick ==
    [][\A i \in Ends :
          (Restored(i) /\ last' = <<"periodic", i, 0, "">>) =>
              CostOf(neighbors'[i], OtherEnd(i), Inf) < Inf
    ]_vars

=============================================================================
